---- MODULE Spec2Model ----
(***************************************************************************)
(* Model of the revenue-sharing program (src/src/processor.rs,             *)
(* instruction.rs, state.rs, error.rs).                                    *)
(*                                                                         *)
(* u64 values are held at their full width.  TLC's integers are 32 bits,   *)
(* so a u64 (and every wider intermediate value) is a natural number       *)
(* written as a little-endian sequence of limbs in base 2^LimbBits, with   *)
(* no leading zero limb, so that equal numbers are equal sequences.  f64   *)
(* values are sign, integer mantissa and binary exponent, and every f64    *)
(* operation rounds its exact result to MANTISSA_DIGITS significant bits,  *)
(* ties to even, as IEEE 754 binary64 does.  The values the program can    *)
(* produce stay far from the exponent limits of binary64 (below 2^90,      *)
(* above 2^-70), so infinities, NaN and subnormals do not occur.           *)
(***************************************************************************)
EXTENDS Integers, Sequences, FiniteSets, TLC

Min(a, b) == IF a <= b THEN a ELSE b
Max(a, b) == IF a >= b THEN a ELSE b

(***************************************************************************)
(* Natural numbers of any size                                             *)
(***************************************************************************)
LimbBits == 2 * 7
Base == 2 ^ LimbBits

BigZero == << >>

RECURSIVE Norm(_)
Norm(s) ==
    IF s = << >> THEN s
    ELSE IF s[Len(s)] = 0 THEN Norm(SubSeq(s, 1, Len(s) - 1))
    ELSE s

RECURSIVE BigOf(_)
BigOf(n) == IF n = 0 THEN << >> ELSE <<n % Base>> \o BigOf(n \div Base)

BigOne == BigOf(1)

RECURSIVE BigToInt(_)
BigToInt(a) == IF a = << >> THEN 0 ELSE Head(a) + Base * BigToInt(Tail(a))

RECURSIVE AddC(_, _, _)
AddC(a, b, c) ==
    IF a = << >> /\ b = << >> THEN (IF c = 0 THEN << >> ELSE <<c>>)
    ELSE LET x == IF a = << >> THEN 0 ELSE Head(a)
             y == IF b = << >> THEN 0 ELSE Head(b)
             s == x + y + c
         IN  <<s % Base>> \o AddC(IF a = << >> THEN a ELSE Tail(a),
                                  IF b = << >> THEN b ELSE Tail(b),
                                  s \div Base)

BigAdd(a, b) == AddC(a, b, 0)

RECURSIVE SubB(_, _, _)
SubB(a, b, c) ==
    IF a = << >> THEN << >>
    ELSE LET y == IF b = << >> THEN 0 ELSE Head(b)
             d == Head(a) - y - c
         IN  <<(d + Base) % Base>>
                 \o SubB(Tail(a), IF b = << >> THEN b ELSE Tail(b),
                         IF d < 0 THEN 1 ELSE 0)

\* a - b, for a >= b
BigSub(a, b) == Norm(SubB(a, b, 0))

RECURSIVE CmpFrom(_, _, _)
CmpFrom(a, b, i) ==
    IF i = 0 THEN 0
    ELSE IF a[i] < b[i] THEN -1
    ELSE IF a[i] > b[i] THEN 1
    ELSE CmpFrom(a, b, i - 1)

\* -1, 0, 1 as a < b, a = b, a > b
BigCmp(a, b) ==
    IF Len(a) < Len(b) THEN -1
    ELSE IF Len(a) > Len(b) THEN 1
    ELSE CmpFrom(a, b, Len(a))

BigLe(a, b) == BigCmp(a, b) <= 0
BigLt(a, b) == BigCmp(a, b) < 0

RECURSIVE MulC(_, _, _)
MulC(a, k, c) ==
    IF a = << >> THEN BigOf(c)
    ELSE LET p == Head(a) * k + c
         IN  <<p % Base>> \o MulC(Tail(a), k, p \div Base)

\* a * k, for 0 <= k < 2^16
BigMulSmall(a, k) == Norm(MulC(a, k, 0))

LimbShl(a) == IF a = << >> THEN a ELSE <<0>> \o a

RECURSIVE BigMul(_, _)
BigMul(a, b) ==
    IF a = << >> \/ b = << >> THEN << >>
    ELSE BigAdd(BigMulSmall(a, Head(b)), LimbShl(BigMul(a, Tail(b))))

DivPut(rest, digit) == [q |-> Append(rest.q, digit), r |-> rest.r]

RECURSIVE DivFrom(_, _, _, _)
DivFrom(a, d, i, r) ==
    IF i = 0 THEN [q |-> << >>, r |-> r]
    ELSE DivPut(DivFrom(a, d, i - 1, (r * Base + a[i]) % d),
                (r * Base + a[i]) \div d)

DivResult(qr) == [q |-> Norm(qr.q), r |-> qr.r]

\* quotient and remainder of a by d, for 0 < d < 2^17
BigDivSmall(a, d) == DivResult(DivFrom(a, d, Len(a), 0))

RECURSIVE IntBitLen(_)
IntBitLen(n) == IF n = 0 THEN 0 ELSE 1 + IntBitLen(n \div 2)

BigBitLen(a) ==
    IF a = << >> THEN 0 ELSE LimbBits * (Len(a) - 1) + IntBitLen(a[Len(a)])

RECURSIVE LimbsShl(_, _)
LimbsShl(a, n) == IF n = 0 THEN a ELSE LimbsShl(LimbShl(a), n - 1)

\* a * 2^k
BigShl(a, k) == LimbsShl(BigMulSmall(a, 2 ^ (k % LimbBits)), k \div LimbBits)

\* floor(a / 2^k)
BigShr(a, k) ==
    LET n == k \div LimbBits
    IN  IF n >= Len(a) THEN << >>
        ELSE BigDivSmall(SubSeq(a, n + 1, Len(a)), 2 ^ (k % LimbBits)).q

BigIsOdd(a) == a # << >> /\ a[1] % 2 = 1

BigPow2(k) == BigShl(BigOne, k)

(***************************************************************************)
(* Machine integers and IEEE 754 binary64                                  *)
(***************************************************************************)
U64_BITS == 64
U16_BITS == 16
MANTISSA_DIGITS == 53

U64_MAX == BigSub(BigPow2(U64_BITS), BigOne)
U16_MAX == 2 ^ U16_BITS - 1

IsU64(a) == a = Norm(a) /\ BigLe(a, U64_MAX)

\* The binary64 nearest to (-1)^neg * (n + f) * 2^e, ties to even, where f is a
\* fraction in [0, 1) that is nonzero exactly when sticky is set.  A sticky n has
\* more than MANTISSA_DIGITS bits.  sh is the number of bits dropped, top the
\* bits kept, half the comparison of the bits dropped with one half.
F64RoundUp(half, top, sticky) ==
    half > 0 \/ (half = 0 /\ (sticky \/ BigIsOdd(top)))

F64RoundTop(neg, n, e, sticky, sh, top) ==
    [neg |-> neg,
     m |-> IF F64RoundUp(BigCmp(BigSub(n, BigShl(top, sh)), BigPow2(sh - 1)),
                         top, sticky)
           THEN BigAdd(top, BigOne)
           ELSE top,
     e |-> e + sh]

F64RoundLen(neg, n, e, sticky, len) ==
    IF len <= MANTISSA_DIGITS THEN [neg |-> neg, m |-> n, e |-> e]
    ELSE F64RoundTop(neg, n, e, sticky, len - MANTISSA_DIGITS,
                     BigShr(n, len - MANTISSA_DIGITS))

F64Round(neg, n, e, sticky) == F64RoundLen(neg, n, e, sticky, BigBitLen(n))

\* `x as f64` for an unsigned integer x
int_as_f64(x) == F64Round(FALSE, x, 0, FALSE)

\* x and y are the two mantissas at the common exponent e, ge says x >= y; the
\* exact sum or difference is rounded once.
F64AddAligned(a, b, e, x, y, ge) ==
    F64Round(IF a.neg = b.neg \/ ge THEN a.neg ELSE b.neg,
             IF a.neg = b.neg THEN BigAdd(x, y)
             ELSE IF ge THEN BigSub(x, y)
             ELSE BigSub(y, x),
             e, FALSE)

F64AddCompare(a, b, e, x, y) == F64AddAligned(a, b, e, x, y, BigCmp(x, y) >= 0)

F64AddAt(a, b, e) ==
    F64AddCompare(a, b, e, BigShl(a.m, a.e - e), BigShl(b.m, b.e - e))

F64Add(a, b) == F64AddAt(a, b, Min(a.e, b.e))

F64Sub(a, b) == F64Add(a, [b EXCEPT !.neg = ~b.neg])

F64Mul(a, b) == F64Round(a.neg # b.neg, BigMul(a.m, b.m), a.e + b.e, FALSE)

\* a / b for a divisor whose mantissa d is below 2^17 (the program divides by
\* 10000f64 only).  The dividend is scaled by 2^k so that the integer quotient
\* has more than MANTISSA_DIGITS bits and the remainder is the sticky fraction.
F64DivQuotient(a, b, k, qr) ==
    F64Round(a.neg # b.neg, qr.q, a.e - b.e - k, qr.r # 0)

F64DivScaled(a, b, d, k) == F64DivQuotient(a, b, k, BigDivSmall(BigShl(a.m, k), d))

F64DivBy(a, b, d) ==
    F64DivScaled(a, b, d,
                 Max(0, MANTISSA_DIGITS + 2 + IntBitLen(d) - BigBitLen(a.m)))

F64Div(a, b) == F64DivBy(a, b, BigToInt(b.m))

\* `x as u64` for an f64 x: truncates toward zero and saturates at the ends of
\* the u64 range.
u64_saturate(v) == IF BigCmp(v, U64_MAX) > 0 THEN U64_MAX ELSE v

f64_as_u64(x) ==
    IF x.neg THEN BigZero
    ELSE u64_saturate(IF x.e >= 0 THEN BigShl(x.m, x.e) ELSE BigShr(x.m, -x.e))

SHARES_DENOMINATOR == 10000

\* processor.rs 180-194: the limit the requested amount is compared against.
\* 186
total_deposited(shared_acc_balance, member_1_withdraw, member_2_withdraw) ==
    F64Add(F64Add(shared_acc_balance, member_1_withdraw), member_2_withdraw)

\* 187-193
max_allowed_f64(total, member_1_withdraw, member_2_withdraw, member_1_shares, member_2_shares, is_member1) ==
    IF is_member1
    THEN F64Sub(F64Div(F64Mul(total, member_1_shares),
                       int_as_f64(BigOf(SHARES_DENOMINATOR))),
                member_1_withdraw)
    ELSE F64Sub(F64Div(F64Mul(total, member_2_shares),
                       int_as_f64(BigOf(SHARES_DENOMINATOR))),
                member_2_withdraw)

\* 194: max_allowed_f64 as u64
max_allowed_of(shared_acc_balance, member_1_withdraw, member_2_withdraw, member_1_shares, member_2_shares, is_member1) ==
    f64_as_u64(max_allowed_f64(total_deposited(shared_acc_balance,
                                               member_1_withdraw,
                                               member_2_withdraw),
                               member_1_withdraw, member_2_withdraw,
                               member_1_shares, member_2_shares, is_member1))

\* 181-185: the balance, the counters and the shares as f64
max_allowed(amount, w1, w2, s1, s2, is_member1) ==
    max_allowed_of(int_as_f64(amount), int_as_f64(w1), int_as_f64(w2),
                   int_as_f64(BigOf(s1)), int_as_f64(BigOf(s2)), is_member1)

(***************************************************************************)
(* Errors (error.rs, and the ProgramError values the program returns)      *)
(***************************************************************************)
InvalidInstruction == 0
NotRentExempt == 1
WithdrawLimitExceeded == 2

Ok == [kind |-> "Ok", code |-> 0]
Err(kind) == [kind |-> kind, code |-> 0]
\* impl From<RevenueSharingError> for ProgramError
Custom(err) == [kind |-> "Custom", code |-> err]
\* A panic (an out-of-range slice, an overflow with overflow checks on) aborts
\* the program; the runtime fails the transaction.
Panic == Err("Panic")

(***************************************************************************)
(* Bytes                                                                   *)
(***************************************************************************)
Byte == 0..255

u16_from_le_bytes(b) == b[1] + 256 * b[2]
u16_to_le_bytes(n) == <<n % 256, n \div 256>>

\* u64::from_le_bytes: limb j holds bits LimbBits * (j - 1) and up of the
\* number, which lie in at most three consecutive bytes.
ByteAt(b, k) == IF k <= Len(b) THEN b[k] ELSE 0

LimbOfBytes(b, bit) ==
    ((ByteAt(b, bit \div 8 + 1) + 256 * ByteAt(b, bit \div 8 + 2)
        + 65536 * ByteAt(b, bit \div 8 + 3)) \div 2 ^ (bit % 8)) % Base

u64_from_le_bytes(b) ==
    Norm([j \in 1..((8 * Len(b) + LimbBits - 1) \div LimbBits) |->
             LimbOfBytes(b, LimbBits * (j - 1))])

\* u64::to_le_bytes: byte i holds bits 8 * (i - 1) and up, which lie in at most
\* two consecutive limbs.
LimbAt(a, j) == IF j <= Len(a) THEN a[j] ELSE 0

ByteOfLimbs(a, bit) ==
    ((LimbAt(a, bit \div LimbBits + 1) + Base * LimbAt(a, bit \div LimbBits + 2))
        \div 2 ^ (bit % LimbBits)) % 256

u64_to_le_bytes(a) == [i \in 1..8 |-> ByteOfLimbs(a, 8 * (i - 1))]

PUBKEY_BYTES == 32
\* The public key whose first byte is n and whose other bytes are 0.
KeyOf(n) == [i \in 1..PUBKEY_BYTES |-> IF i = 1 THEN n ELSE 0]

(***************************************************************************)
(* state.rs: the record and its codec                                      *)
(***************************************************************************)
LEN == 85

is_initialized(r) == r.is_initialized

\* Fault injection: unpack_from_slice as it would be if every flag byte other
\* than 0 were read as true.
unpack_from_slice_any_flag(src) ==
    [err |-> Ok,
     val |-> [is_initialized |-> src[1] # 0,
              member_1_pubkey |-> SubSeq(src, 2, 33),
              member_2_pubkey |-> SubSeq(src, 34, 65),
              member_1_shares |-> u16_from_le_bytes(SubSeq(src, 66, 67)),
              member_2_shares |-> u16_from_le_bytes(SubSeq(src, 68, 69)),
              member_1_withdraw |-> u64_from_le_bytes(SubSeq(src, 70, 77)),
              member_2_withdraw |-> u64_from_le_bytes(SubSeq(src, 78, 85))]]

unpack_from_slice(src) ==
    LET flag == src[1]
    IN  IF flag \notin {0, 1} THEN [err |-> Err("InvalidAccountData")]
        ELSE [err |-> Ok,
              val |-> [is_initialized |-> flag = 1,
                       member_1_pubkey |-> SubSeq(src, 2, 33),
                       member_2_pubkey |-> SubSeq(src, 34, 65),
                       member_1_shares |-> u16_from_le_bytes(SubSeq(src, 66, 67)),
                       member_2_shares |-> u16_from_le_bytes(SubSeq(src, 68, 69)),
                       member_1_withdraw |-> u64_from_le_bytes(SubSeq(src, 70, 77)),
                       member_2_withdraw |-> u64_from_le_bytes(SubSeq(src, 78, 85))]]

\* Fault injection: pack_into_slice with the two shares written in each
\* other's place.
pack_into_slice_swapped(r) ==
    <<IF r.is_initialized THEN 1 ELSE 0>>
        \o r.member_1_pubkey
        \o r.member_2_pubkey
        \o u16_to_le_bytes(r.member_2_shares)
        \o u16_to_le_bytes(r.member_1_shares)
        \o u64_to_le_bytes(r.member_1_withdraw)
        \o u64_to_le_bytes(r.member_2_withdraw)

pack_into_slice(r) ==
    <<IF r.is_initialized THEN 1 ELSE 0>>
        \o r.member_1_pubkey
        \o r.member_2_pubkey
        \o u16_to_le_bytes(r.member_1_shares)
        \o u16_to_le_bytes(r.member_2_shares)
        \o u64_to_le_bytes(r.member_1_withdraw)
        \o u64_to_le_bytes(r.member_2_withdraw)

\* Pack::unpack_unchecked, Pack::unpack and Pack::pack of solana_program, which
\* call the two functions above.
unpack_unchecked(input) ==
    IF Len(input) # LEN THEN [err |-> Err("InvalidAccountData")]
    ELSE unpack_from_slice(input)

\* Fault injection: Pack::unpack as it would be without the is_initialized test.
unpack_checked_lenient(u) == u

unpack_checked(u) ==
    IF u.err # Ok THEN u
    ELSE IF is_initialized(u.val) THEN u
    ELSE [err |-> Err("UninitializedAccount")]

unpack(input) == unpack_checked(unpack_unchecked(input))

pack(src, dst) ==
    IF Len(dst) # LEN THEN [err |-> Err("InvalidAccountData")]
    ELSE [err |-> Ok, val |-> pack_into_slice(src)]

(***************************************************************************)
(* instruction.rs: the instruction decoder                                 *)
(***************************************************************************)
\* array_ref![data, 0, 4] slices data[0..4]: a shorter payload panics.
unpack_revenue_sharing(data) ==
    IF Len(data) < 4 THEN [err |-> Panic]
    ELSE [err |-> Ok,
          val |-> [tag |-> "InitRevenueSharing",
                   member_1_shares |-> u16_from_le_bytes(SubSeq(data, 1, 2)),
                   member_2_shares |-> u16_from_le_bytes(SubSeq(data, 3, 4)),
                   amount |-> BigZero]]

\* Fault injection: unpack_amount as it would be if it read a short input as
\* if zeros followed it.
unpack_amount_padded(input) ==
    [err |-> Ok,
     val |-> u64_from_le_bytes([i \in 1..8 |-> IF i <= Len(input) THEN input[i] ELSE 0])]

unpack_amount(input) ==
    IF Len(input) < 8 THEN [err |-> Custom(InvalidInstruction)]
    ELSE [err |-> Ok, val |-> u64_from_le_bytes(SubSeq(input, 1, 8))]

\* 73-75: Self::Withdraw { amount: Self::unpack_amount(rest)? }
unpack_withdraw(a) ==
    IF a.err # Ok THEN [err |-> a.err]
    ELSE [err |-> Ok,
          val |-> [tag |-> "Withdraw", member_1_shares |-> 0,
                   member_2_shares |-> 0, amount |-> a.val]]

Instruction_unpack(input) ==
    IF input = << >> THEN [err |-> Custom(InvalidInstruction)]
    ELSE CASE Head(input) = 0 -> unpack_revenue_sharing(Tail(input))
           [] Head(input) = 1 -> unpack_withdraw(unpack_amount(Tail(input)))
           [] OTHER -> [err |-> Custom(InvalidInstruction)]

(***************************************************************************)
(* The host runtime and the token ledger, as the program sees them         *)
(***************************************************************************)
ALICE == KeyOf(1)
BOB == KeyOf(2)
CAROL == KeyOf(3)
PROGRAM_ID == KeyOf(100)

\* Pubkey::find_program_address: a key and a bump seed that depend on the seeds
\* and on the program id and on nothing else.
find_program_address(seeds, program_id) ==
    [pda |-> [i \in 1..PUBKEY_BYTES |->
                 CASE i = 1 -> 255
                   [] i = 2 -> program_id[1]
                   [] i = 3 -> IF seeds = <<"revenue_sharing">> THEN 1 ELSE 2
                   [] OTHER -> 0],
     bump_seed |-> 255]

\* Fault injection: a set_authority that reports success and changes nothing.
set_authority_skipped(token_acct, new_authority, current_owner, signed, ledger_ok) ==
    [err |-> Ok, val |-> token_acct]

\* spl_token set_authority(AccountOwner), reached through invoke: the ledger
\* changes the owner of the token account when its current owner signed and it
\* finds nothing else wrong (ledger_ok stands for all its other checks).
set_authority(token_acct, new_authority, current_owner, signed, ledger_ok) ==
    IF token_acct.owner # current_owner \/ ~signed
    THEN [err |-> Err("LedgerOwnerMismatch")]
    ELSE IF ~ledger_ok THEN [err |-> Err("LedgerRejected")]
    ELSE [err |-> Ok, val |-> [token_acct EXCEPT !.owner = new_authority]]

\* spl_token transfer, reached through invoke_signed: the ledger debits the
\* source when the authority is its owner, the balance suffices and it finds
\* nothing else wrong.
transfer(token_acct, authority, amount, ledger_ok) ==
    IF token_acct.owner # authority THEN [err |-> Err("LedgerOwnerMismatch")]
    ELSE IF BigLt(token_acct.amount, amount)
    THEN [err |-> Err("LedgerInsufficientFunds")]
    ELSE IF ~ledger_ok THEN [err |-> Err("LedgerRejected")]
    ELSE [err |-> Ok,
          val |-> [token_acct EXCEPT !.amount = BigSub(token_acct.amount, amount)]]

(***************************************************************************)
(* processor.rs                                                            *)
(*                                                                         *)
(* A handler is given the accounts of the instruction (acc), the data of   *)
(* the state account (state_data), the shared token account (shared) and   *)
(* the build's overflow setting.  It returns its result, the data and the  *)
(* token account as it left them, and the steps it went through.           *)
(***************************************************************************)
Outcome(result, state_data, shared, trace) ==
    [result |-> result, state_data |-> state_data, shared |-> shared,
     trace |-> trace]

\* processor.rs 112-130: the owner of the shared account becomes the derived
\* authority.  The record was written before (106); the runtime keeps it only
\* if the instruction succeeds.
init_set_authority(state_data, shared, packed, cpi) ==
    IF cpi.err # Ok
    THEN Outcome(cpi.err, packed.val, shared, <<"pack", "set_authority">>)
    ELSE Outcome(Ok, packed.val, cpi.val, <<"pack", "set_authority">>)

\* 106-109: the record is written and the derived authority is found
init_pack(acc, program_id, state_data, shared, packed) ==
    IF packed.err # Ok THEN Outcome(packed.err, state_data, shared, << >>)
    ELSE init_set_authority(
             state_data, shared, packed,
             set_authority(shared,
                           find_program_address(<<"revenue_sharing">>,
                                                program_id).pda,
                           acc.key, acc.is_signer, acc.ledger_ok))

\* Fault injection: init_populate as it would be without the test of 83-85.
init_populate_unguarded(acc, member_1_shares, member_2_shares, program_id, state_data, shared, u) ==
    IF u.err # Ok THEN Outcome(u.err, state_data, shared, << >>)
    ELSE IF acc.n < 7
    THEN Outcome(Err("NotEnoughAccountKeys"), state_data, shared, << >>)
    ELSE init_pack(acc, program_id, state_data, shared,
                   pack([u.val EXCEPT !.is_initialized = TRUE,
                                      !.member_1_pubkey = acc.member_1,
                                      !.member_2_pubkey = acc.member_2,
                                      !.member_1_shares = member_1_shares,
                                      !.member_2_shares = member_2_shares,
                                      !.member_1_withdraw = BigZero,
                                      !.member_2_withdraw = BigZero],
                        state_data))

\* 82-103: the record must be new; the remaining accounts are taken and the
\* record is filled in
init_populate(acc, member_1_shares, member_2_shares, program_id, state_data, shared, u) ==
    IF u.err # Ok THEN Outcome(u.err, state_data, shared, << >>)
    ELSE IF is_initialized(u.val)
    THEN Outcome(Err("AccountAlreadyInitialized"), state_data, shared, << >>)
    ELSE IF acc.n < 7
    THEN Outcome(Err("NotEnoughAccountKeys"), state_data, shared, << >>)
    ELSE init_pack(acc, program_id, state_data, shared,
                   pack([u.val EXCEPT !.is_initialized = TRUE,
                                      !.member_1_pubkey = acc.member_1,
                                      !.member_2_pubkey = acc.member_2,
                                      !.member_1_shares = member_1_shares,
                                      !.member_2_shares = member_2_shares,
                                      !.member_1_withdraw = BigZero,
                                      !.member_2_withdraw = BigZero],
                        state_data))

\* 49-133
process_init_revenue_sharing(acc, member_1_shares, member_2_shares, program_id, state_data, shared) ==
    LET Fail(e) == Outcome(e, state_data, shared, << >>)
    IN  IF acc.n < 1 THEN Fail(Err("NotEnoughAccountKeys"))
        ELSE IF ~acc.is_signer THEN Fail(Err("MissingRequiredSignature"))
        ELSE IF acc.n < 2 THEN Fail(Err("NotEnoughAccountKeys"))
        ELSE IF acc.shared # "token" THEN Fail(Err("IncorrectProgramId"))
        ELSE IF acc.n < 3 THEN Fail(Err("NotEnoughAccountKeys"))
        ELSE IF acc.n < 4 THEN Fail(Err("NotEnoughAccountKeys"))
        ELSE IF ~acc.rent_sysvar THEN Fail(Err("InvalidArgument"))
        ELSE IF ~acc.rent_exempt THEN Fail(Custom(NotRentExempt))
        ELSE init_populate(acc, member_1_shares, member_2_shares, program_id,
                           state_data, shared, unpack_unchecked(state_data))

\* `counter += amount` on a u64: with overflow checks an overflow panics,
\* without them the sum wraps.
u64_overflow(sum, overflow_checks) ==
    IF BigLe(sum, U64_MAX) THEN [err |-> Ok, val |-> sum]
    ELSE IF overflow_checks THEN [err |-> Panic]
    ELSE [err |-> Ok, val |-> BigSub(sum, BigPow2(U64_BITS))]

u64_add_assign(counter, amount, overflow_checks) ==
    u64_overflow(BigAdd(counter, amount), overflow_checks)

\* 229: the record is written
withdraw_pack(state_data, cpi, packed) ==
    IF packed.err # Ok
    THEN Outcome(packed.err, state_data, cpi.val,
                 <<"check", "transfer", "update">>)
    ELSE Outcome(Ok, packed.val, cpi.val,
                 <<"check", "transfer", "update", "pack">>)

\* 223-228: add1 and add2 are the two counters after the conditional additions
withdraw_update(state_data, state_acct_data, cpi, add1, add2) ==
    IF add1.err # Ok
    THEN Outcome(add1.err, state_data, cpi.val, <<"check", "transfer">>)
    ELSE IF add2.err # Ok
    THEN Outcome(add2.err, state_data, cpi.val, <<"check", "transfer">>)
    ELSE withdraw_pack(state_data, cpi,
                       pack([state_acct_data EXCEPT
                                 !.member_1_withdraw = add1.val,
                                 !.member_2_withdraw = add2.val],
                            state_data))

\* Fault injection: withdraw_transfer as it would be if the result of the
\* transfer were ignored and the counters updated all the same.
withdraw_transfer_unchecked(amount, state_data, shared, overflow_checks, state_acct_data, is_member1, is_member2, cpi) ==
    withdraw_update(
        state_data, state_acct_data, [err |-> Ok, val |-> shared],
        IF is_member1
        THEN u64_add_assign(state_acct_data.member_1_withdraw, amount,
                            overflow_checks)
        ELSE [err |-> Ok, val |-> state_acct_data.member_1_withdraw],
        IF is_member2
        THEN u64_add_assign(state_acct_data.member_2_withdraw, amount,
                            overflow_checks)
        ELSE [err |-> Ok, val |-> state_acct_data.member_2_withdraw])

\* 201-228: the result of the transfer decides whether the counters change
withdraw_transfer(amount, state_data, shared, overflow_checks, state_acct_data, is_member1, is_member2, cpi) ==
    IF cpi.err # Ok
    THEN Outcome(cpi.err, state_data, shared, <<"check", "transfer">>)
    ELSE withdraw_update(
             state_data, state_acct_data, cpi,
             IF is_member1
             THEN u64_add_assign(state_acct_data.member_1_withdraw, amount,
                                 overflow_checks)
             ELSE [err |-> Ok, val |-> state_acct_data.member_1_withdraw],
             IF is_member2
             THEN u64_add_assign(state_acct_data.member_2_withdraw, amount,
                                 overflow_checks)
             ELSE [err |-> Ok, val |-> state_acct_data.member_2_withdraw])

\* Fault injection: withdraw_check as it would be if it derived the authority
\* from other seeds than the initialize handler.
withdraw_check_other_seed(acc, amount, program_id, state_data, shared, overflow_checks, state_acct_data, is_member1, is_member2) ==
    LET Fail(e, tr) == Outcome(e, state_data, shared, tr)
    IN  IF ~is_member1 /\ ~is_member2 THEN Fail(Err("InvalidAccountData"), << >>)
        ELSE IF acc.n < 3 THEN Fail(Err("NotEnoughAccountKeys"), << >>)
        ELSE IF acc.shared # "token" THEN Fail(Err("InvalidAccountData"), << >>)
        ELSE IF acc.n < 6 THEN Fail(Err("NotEnoughAccountKeys"), << >>)
        ELSE IF BigLt(max_allowed(shared.amount,
                                  state_acct_data.member_1_withdraw,
                                  state_acct_data.member_2_withdraw,
                                  state_acct_data.member_1_shares,
                                  state_acct_data.member_2_shares,
                                  is_member1),
                      amount)
        THEN Fail(Custom(WithdrawLimitExceeded), <<"check">>)
        ELSE withdraw_transfer(
                 amount, state_data, shared, overflow_checks, state_acct_data,
                 is_member1, is_member2,
                 transfer(shared,
                          find_program_address(<<"revenue">>,
                                               program_id).pda,
                          amount, acc.ledger_ok))

\* 157-220: the caller is a member, the amount is within the limit, and the
\* transfer is asked of the ledger
withdraw_check(acc, amount, program_id, state_data, shared, overflow_checks, state_acct_data, is_member1, is_member2) ==
    LET Fail(e, tr) == Outcome(e, state_data, shared, tr)
    IN  IF ~is_member1 /\ ~is_member2 THEN Fail(Err("InvalidAccountData"), << >>)
        ELSE IF acc.n < 3 THEN Fail(Err("NotEnoughAccountKeys"), << >>)
        ELSE IF acc.shared # "token" THEN Fail(Err("InvalidAccountData"), << >>)
        ELSE IF acc.n < 6 THEN Fail(Err("NotEnoughAccountKeys"), << >>)
        ELSE IF BigLt(max_allowed(shared.amount,
                                  state_acct_data.member_1_withdraw,
                                  state_acct_data.member_2_withdraw,
                                  state_acct_data.member_1_shares,
                                  state_acct_data.member_2_shares,
                                  is_member1),
                      amount)
        THEN Fail(Custom(WithdrawLimitExceeded), <<"check">>)
        ELSE withdraw_transfer(
                 amount, state_data, shared, overflow_checks, state_acct_data,
                 is_member1, is_member2,
                 transfer(shared,
                          find_program_address(<<"revenue_sharing">>,
                                               program_id).pda,
                          amount, acc.ledger_ok))

\* Fault injection: withdraw_unpack as it would be if every caller were taken
\* for member 1.
withdraw_unpack_anyone(acc, amount, program_id, state_data, shared, overflow_checks, u) ==
    IF u.err # Ok THEN Outcome(u.err, state_data, shared, << >>)
    ELSE withdraw_check(acc, amount, program_id, state_data, shared,
                        overflow_checks, u.val, TRUE,
                        u.val.member_2_pubkey = acc.key)

\* 154-162: the record must be initialized; the caller is compared with the
\* two members
withdraw_unpack(acc, amount, program_id, state_data, shared, overflow_checks, u) ==
    IF u.err # Ok THEN Outcome(u.err, state_data, shared, << >>)
    ELSE withdraw_check(acc, amount, program_id, state_data, shared,
                        overflow_checks, u.val,
                        u.val.member_1_pubkey = acc.key,
                        u.val.member_2_pubkey = acc.key)

\* 135-232
process_withdraw(acc, amount, program_id, state_data, shared, overflow_checks) ==
    LET Fail(e, tr) == Outcome(e, state_data, shared, tr)
    IN  IF acc.n < 1 THEN Fail(Err("NotEnoughAccountKeys"), << >>)
        ELSE IF ~acc.is_signer THEN Fail(Err("MissingRequiredSignature"), << >>)
        ELSE IF acc.n < 2 THEN Fail(Err("NotEnoughAccountKeys"), << >>)
        ELSE withdraw_unpack(acc, amount, program_id, state_data, shared,
                             overflow_checks, unpack(state_data))

\* 26-47: the decoded instruction goes to its handler
process_instruction(program_id, acc, state_data, shared, overflow_checks, instruction) ==
    IF instruction.err # Ok
    THEN Outcome(instruction.err, state_data, shared, << >>)
    ELSE IF instruction.val.tag = "InitRevenueSharing"
    THEN process_init_revenue_sharing(acc, instruction.val.member_1_shares,
                                      instruction.val.member_2_shares,
                                      program_id, state_data, shared)
    ELSE process_withdraw(acc, instruction.val.amount, program_id,
                          state_data, shared, overflow_checks)

process(program_id, acc, instruction_data, state_data, shared, overflow_checks) ==
    process_instruction(program_id, acc, state_data, shared, overflow_checks,
                        Instruction_unpack(instruction_data))

(***************************************************************************)
(* The state machine: one state account, one shared token account          *)
(*                                                                         *)
(* Each instruction runs as one transaction.  ix, result and trace         *)
(* describe the transaction that has just run; EndTransaction forgets      *)
(* them before the next one starts.  The accounts and the three sums       *)
(* below persist.                                                          *)
(***************************************************************************)
VARIABLES
    state_data,       \* the data of the state account (LEN bytes)
    shared,           \* the shared token account: its owner and its amount
    ix,               \* the transaction: what was done, its accounts, its data
    result,           \* its result
    trace,            \* the steps its handler went through
    deposited,        \* the first balance plus every deposit since
    approved_1,       \* the sum of the amounts member 1 withdrew successfully
    approved_2,       \* the same for member 2
    steps,            \* the number of instructions that changed the accounts
    deposits,         \* the number of deposits
    state_acct_data,  \* a record in memory, as a handler holds it
    other_state_data, \* the data of the state account of a second arrangement
    other_shared      \* the shared token account of a second arrangement

vars == <<state_data, shared, ix, result, trace, deposited, approved_1,
          approved_2, steps, deposits, state_acct_data, other_state_data,
          other_shared>>

\* What this specification does not use: the record in memory and the second
\* arrangement.
aside == <<state_acct_data, other_state_data, other_shared>>

MaxSteps == 3
MaxDeposits == 1

\* The arrangements set up: the second member and the two shares.  Member 1 is
\* ALICE; in the last arrangement both members are the same key.
Arrangements == {<<BOB, 6000, 4000>>, <<BOB, 10000, 10000>>, <<ALICE, 10000, 0>>}
InitialBalances == {BigOf(1000), BigPow2(63)}
DepositAmounts == {BigOf(500), BigPow2(63)}
FixedAmounts == {BigZero, BigOne}

Acc(n, key, is_signer, sh, rent_sysvar, rent_exempt, m1, m2, ledger_ok) ==
    [n |-> n, key |-> key, is_signer |-> is_signer, shared |-> sh,
     rent_sysvar |-> rent_sysvar, rent_exempt |-> rent_exempt,
     member_1 |-> m1, member_2 |-> m2, ledger_ok |-> ledger_ok]

NoAcc == Acc(0, CAROL, FALSE, "token", TRUE, TRUE, ALICE, BOB, TRUE)
NoIx == [op |-> "none", acc |-> NoAcc, data |-> << >>]

InitData(s1, s2) == <<0>> \o u16_to_le_bytes(s1) \o u16_to_le_bytes(s2)
WithdrawData(amount) == <<1>> \o u64_to_le_bytes(amount)

\* The initialize instructions submitted: a well-formed one for each
\* arrangement, every combination of signature, shared account and rent status,
\* and ones with too few accounts, a wrong rent sysvar, a ledger that refuses and
\* a caller who does not own the shared account.
InitInputs ==
    {<<Acc(7, CAROL, TRUE, "token", TRUE, TRUE, ALICE, a[1], TRUE),
       InitData(a[2], a[3])>> : a \in Arrangements}
    \cup {<<Acc(7, CAROL, sg, sh, TRUE, re, ALICE, BOB, TRUE),
            InitData(6000, 4000)>> :
             sg \in BOOLEAN, sh \in {"token", "other"}, re \in BOOLEAN}
    \cup {<<Acc(n, CAROL, TRUE, "token", TRUE, TRUE, ALICE, BOB, TRUE),
            InitData(6000, 4000)>> : n \in 0..6}
    \cup {<<Acc(7, CAROL, TRUE, "token", FALSE, TRUE, ALICE, BOB, TRUE),
            InitData(6000, 4000)>>,
          <<Acc(7, CAROL, TRUE, "token", TRUE, TRUE, ALICE, BOB, FALSE),
            InitData(6000, 4000)>>,
          <<Acc(7, ALICE, TRUE, "token", TRUE, TRUE, ALICE, BOB, TRUE),
            InitData(6000, 4000)>>}

BigSucc(a) == IF a = U64_MAX THEN a ELSE BigAdd(a, BigOne)

\* a - b, or 0 when b exceeds a
BigMonus(a, b) == IF BigLe(b, a) THEN BigSub(a, b) ELSE BigZero

\* What processor.rs 186-194 computes in f64, in exact integer arithmetic:
\* the lifetime inflow, a member's entitlement floor(total * shares / 10000),
\* and what is left of it after the member's withdrawals.
TotalEverDeposited(balance, r) ==
    BigAdd(BigAdd(balance, r.member_1_withdraw), r.member_2_withdraw)

Entitlement(total, shares) ==
    BigDivSmall(BigMulSmall(total, shares), SHARES_DENOMINATOR).q

EntitlementLeft(balance, r, m) ==
    IF m = 1
    THEN BigMonus(Entitlement(TotalEverDeposited(balance, r), r.member_1_shares),
                  r.member_1_withdraw)
    ELSE BigMonus(Entitlement(TotalEverDeposited(balance, r), r.member_2_shares),
                  r.member_2_withdraw)

\* The amounts a caller asks for: a few fixed ones and, for an initialized
\* record and each member, the limit the handler computes and one above it.
LimitsOf(u) ==
    IF u.err # Ok THEN {}
    ELSE UNION {{l, BigSucc(l)} :
           l \in {max_allowed(shared.amount, u.val.member_1_withdraw,
                              u.val.member_2_withdraw, u.val.member_1_shares,
                              u.val.member_2_shares, is1) : is1 \in BOOLEAN}}

WithdrawAmounts == FixedAmounts \cup LimitsOf(unpack(state_data))

WithdrawAcc(n, key, is_signer, sh, ledger_ok) ==
    Acc(n, key, is_signer, sh, TRUE, TRUE, ALICE, BOB, ledger_ok)

\* The withdraw instructions submitted: each of the three keys as a signing
\* caller with each amount, each key without a signature, a shared account
\* that is no token account, a ledger that refuses, and too few accounts.
WithdrawInputs ==
    {<<WithdrawAcc(6, k, TRUE, "token", TRUE), WithdrawData(a)>> :
        k \in {ALICE, BOB, CAROL}, a \in WithdrawAmounts}
    \cup {<<WithdrawAcc(6, k, FALSE, "token", TRUE), WithdrawData(BigOne)>> :
             k \in {ALICE, BOB, CAROL}}
    \cup {<<WithdrawAcc(6, k, TRUE, sh, lo), WithdrawData(BigOne)>> :
             k \in {ALICE, BOB}, sh \in {"token", "other"}, lo \in BOOLEAN}
    \cup {<<WithdrawAcc(n, ALICE, TRUE, "token", TRUE), WithdrawData(BigOne)>> :
             n \in 0..5}

\* Instruction data that is no instruction, or an instruction cut short.
MalformedData ==
    {<< >>, <<2>>, <<0, 1, 2, 3>>, <<1, 1, 0, 0>>, <<1, 1, 0, 0, 0, 0, 0, 0>>}

Init ==
    /\ state_data = [i \in 1..LEN |-> 0]
    /\ shared \in {[owner |-> CAROL, amount |-> b] : b \in InitialBalances}
    /\ ix = NoIx
    /\ result = Ok
    /\ trace = << >>
    /\ deposited = shared.amount
    /\ approved_1 = BigZero
    /\ approved_2 = BigZero
    /\ steps = 0
    /\ deposits = 0
    /\ state_acct_data = unpack_unchecked(state_data).val
    /\ other_state_data = state_data
    /\ other_shared = [owner |-> CAROL, amount |-> BigZero]

\* The build setting for integer overflow is not part of the sources, so the
\* program may have been built either way.  The two builds differ only where an
\* addition overflows, and there the build with overflow checks panics: the
\* outcomes of an instruction are the outcome with checks and, if that is a
\* panic, the outcome without.
OutcomesFrom(checked, acc, data) ==
    IF checked.result = Panic
    THEN {checked, process(PROGRAM_ID, acc, data, state_data, shared, FALSE)}
    ELSE {checked}

Outcomes(acc, data) ==
    OutcomesFrom(process(PROGRAM_ID, acc, data, state_data, shared, TRUE), acc, data)

\* Fault injection: a runtime that keeps what a failed instruction wrote.
commit_always(ok, written, old) == written

\* What the runtime leaves in an account after an instruction: what the
\* program wrote if it returned Ok, and what the account held before otherwise
\* (the handlers write the record, 106, before the call that may fail, 123-130).
commit(ok, written, old) == IF ok THEN written ELSE old

\* The runtime runs the program on one instruction and keeps what it wrote only
\* if it returned Ok.
Submit(op, acc, data) ==
    \E out \in Outcomes(acc, data) :
    \E ok \in {out.result = Ok} :
    \E changed \in {ok /\ (out.state_data # state_data \/ out.shared # shared)} :
    \E withdrew \in {ok /\ op = "withdraw"} :
    \E before \in {unpack_unchecked(state_data).val} :
    \E amount \in {IF withdrew THEN Instruction_unpack(data).val.amount ELSE BigZero} :
        /\ changed => steps < MaxSteps
        /\ ix' = [op |-> op, acc |-> acc, data |-> data]
        /\ result' = out.result
        /\ trace' = out.trace
        /\ state_data' = commit(ok, out.state_data, state_data)
        /\ shared' = commit(ok, out.shared, shared)
        /\ steps' = IF changed THEN steps + 1 ELSE steps
        /\ approved_1' = IF withdrew /\ before.member_1_pubkey = acc.key
                         THEN BigAdd(approved_1, amount)
                         ELSE approved_1
        /\ approved_2' = IF withdrew /\ before.member_2_pubkey = acc.key
                         THEN BigAdd(approved_2, amount)
                         ELSE approved_2
        /\ UNCHANGED <<deposited, deposits, aside>>

Initialize ==
    /\ ix = NoIx
    /\ \E i \in InitInputs : Submit("init", i[1], i[2])

Withdraw ==
    /\ ix = NoIx
    /\ \E i \in WithdrawInputs : Submit("withdraw", i[1], i[2])

Malformed ==
    /\ ix = NoIx
    /\ \E d \in MalformedData : Submit("malformed", NoAcc, d)

\* Anyone may transfer tokens into the shared account; a token balance is a u64.
Deposit ==
    \E d \in DepositAmounts :
        /\ ix = NoIx
        /\ deposits < MaxDeposits
        /\ BigLe(BigAdd(shared.amount, d), U64_MAX)
        /\ shared' = [shared EXCEPT !.amount = BigAdd(shared.amount, d)]
        /\ deposited' = BigAdd(deposited, d)
        /\ ix' = [op |-> "deposit", acc |-> NoAcc, data |-> u64_to_le_bytes(d)]
        /\ result' = Ok
        /\ trace' = << >>
        /\ deposits' = deposits + 1
        /\ UNCHANGED <<state_data, approved_1, approved_2, steps, aside>>

EndTransaction ==
    /\ ix # NoIx
    /\ ix' = NoIx
    /\ result' = Ok
    /\ trace' = << >>
    /\ UNCHANGED <<state_data, shared, deposited, approved_1, approved_2, steps,
                   deposits, aside>>

Next == Initialize \/ Withdraw \/ Malformed \/ Deposit \/ EndTransaction

Spec == Init /\ [][Next]_vars

(***************************************************************************)
(* Properties                                                              *)
(*                                                                         *)
(* A property of a transaction is an action formula: unprimed variables    *)
(* are the accounts before it, ix', result' and trace' describe it, and    *)
(* the primed accounts are what it left.                                   *)
(***************************************************************************)
\* The record held in the data of a state account, and the one held now.
RecordOf(data) == unpack_unchecked(data).val
Record == RecordOf(state_data)
\* The record a transaction leaves.
RecordAfter == RecordOf(state_data')
Initialized == is_initialized(Record)

\* The derived authority of this program.
DerivedAuthority == find_program_address(<<"revenue_sharing">>, PROGRAM_ID).pda

\* The amount a withdraw instruction asks for.
AmountOf(i) == u64_from_le_bytes(SubSeq(i.data, 2, 9))

\* A withdraw instruction with all its accounts, signed, on a token account,
\* that the ledger has no reason of its own to refuse.
WellFormedWithdraw(i) ==
    /\ i.op = "withdraw"
    /\ i.acc.n = 6
    /\ i.acc.is_signer
    /\ i.acc.shared = "token"
    /\ i.acc.ledger_ok

\* C1: in every reachable state and for each member, the withdrawn counter is
\* at most floor(total_ever_deposited * shares / 10000), where
\* total_ever_deposited is the shared balance plus the two counters; also when
\* both members are the same key.
C1_WithdrawnWithinEntitlement ==
    Initialized =>
        /\ BigLe(Record.member_1_withdraw,
                 Entitlement(TotalEverDeposited(shared.amount, Record), Record.member_1_shares))
        /\ BigLe(Record.member_2_withdraw,
                 Entitlement(TotalEverDeposited(shared.amount, Record), Record.member_2_shares))

\* An initialize instruction run on an initialized record.
ReInitialize == Initialized /\ ix'.op = "init"

\* The checks of the initialize handler that come before it reads the record
\* (processor.rs 60-79) all pass.
PassesEarlyChecks(acc) ==
    /\ acc.n >= 4
    /\ acc.is_signer
    /\ acc.shared = "token"
    /\ acc.rent_sysvar
    /\ acc.rent_exempt

\* C2, as stated: initialize on an initialized record, given all its accounts,
\* always fails with AccountAlreadyInitialized, whatever the signer flag, the
\* owner of the shared account, the rent status and the shares and members
\* supplied, and leaves the record unchanged.
C2_ReinitAlwaysAlreadyInitialized ==
    [][(ReInitialize /\ ix'.acc.n = 7 /\ ix'.acc.rent_sysvar) =>
           /\ result' = Err("AccountAlreadyInitialized")
           /\ state_data' = state_data]_vars

\* C2, amended: initialize on an initialized record always fails and leaves
\* the record and the shared account unchanged; the error is
\* AccountAlreadyInitialized when the checks made before the record is read
\* pass (signature, shared account, rent), and the error of the first of those
\* checks that fails otherwise.
C2_ReinitFails ==
    [][ReInitialize =>
           /\ result' # Ok
           /\ state_data' = state_data
           /\ shared' = shared
           /\ PassesEarlyChecks(ix'.acc) <=>
                  result' = Err("AccountAlreadyInitialized")]_vars

\* An initialize with other shares than the record's was refused as
\* AccountAlreadyInitialized.
C2_Witness ==
    /\ ix.op = "init"
    /\ result = Err("AccountAlreadyInitialized")
    /\ Record.member_1_shares # u16_from_le_bytes(SubSeq(ix.data, 2, 3))

\* C3: a successful initialize was signed, on a shared token account, on a
\* rent-exempt record that was not initialized, with a ledger that accepted;
\* after it the record is initialized, holds the two member accounts supplied
\* and the two shares of the payload, both counters are 0, and the shared
\* account is owned by the derived authority.
C3_InitializePostcondition ==
    [][(ix'.op = "init" /\ result' = Ok) =>
           /\ ~Initialized
           /\ ix'.acc.is_signer
           /\ ix'.acc.shared = "token"
           /\ ix'.acc.rent_exempt
           /\ ix'.acc.ledger_ok
           /\ RecordAfter.is_initialized
           /\ RecordAfter.member_1_pubkey = ix'.acc.member_1
           /\ RecordAfter.member_2_pubkey = ix'.acc.member_2
           /\ RecordAfter.member_1_shares = ix'.data[2] + 256 * ix'.data[3]
           /\ RecordAfter.member_2_shares = ix'.data[4] + 256 * ix'.data[5]
           /\ RecordAfter.member_1_withdraw = BigZero
           /\ RecordAfter.member_2_withdraw = BigZero
           /\ shared'.owner = DerivedAuthority]_vars

\* An initialize has just succeeded.
C3_Witness ==
    /\ ix.op = "init"
    /\ result = Ok
    /\ Record.member_1_shares = 6000
    /\ Record.member_2_pubkey = BOB

\* The member's counter does not exceed the member's entitlement, so that the
\* entitlement left is the difference the claim names.
WithinEntitlement(balance, r, m) ==
    IF m = 1
    THEN BigLe(r.member_1_withdraw,
               Entitlement(TotalEverDeposited(balance, r), r.member_1_shares))
    ELSE BigLe(r.member_2_withdraw,
               Entitlement(TotalEverDeposited(balance, r), r.member_2_shares))

IsMember(r, key, m) ==
    IF m = 1 THEN r.member_1_pubkey = key ELSE r.member_2_pubkey = key

\* C4: on an initialized record, a withdraw by member m of exactly
\* floor(total_ever_deposited * shares_m / 10000) - withdrawn_m succeeds, and
\* one of one unit more fails with WithdrawLimitExceeded and leaves the record
\* and the shared balance unchanged.
C4_ExactEntitlementBoundary ==
    [][\A m \in 1..2 :
           (/\ WellFormedWithdraw(ix')
            /\ Initialized
            /\ IsMember(Record, ix'.acc.key, m)
            /\ WithinEntitlement(shared.amount, Record, m)) =>
               /\ AmountOf(ix') = EntitlementLeft(shared.amount, Record, m) =>
                      result' = Ok
               /\ AmountOf(ix') =
                      BigAdd(EntitlementLeft(shared.amount, Record, m), BigOne) =>
                      /\ result' = Custom(WithdrawLimitExceeded)
                      /\ state_data' = state_data
                      /\ shared' = shared]_vars

\* C5: a signed withdraw on an initialized record by a caller that is neither
\* member fails with InvalidAccountData for every amount, asks no transfer of
\* the ledger, and leaves the shared account and the record unchanged.
C5_NonMemberRefused ==
    [][(/\ ix'.op = "withdraw"
        /\ ix'.acc.n >= 2
        /\ ix'.acc.is_signer
        /\ Initialized
        /\ ~IsMember(Record, ix'.acc.key, 1)
        /\ ~IsMember(Record, ix'.acc.key, 2)) =>
           /\ result' = Err("InvalidAccountData")
           /\ \A k \in 1..Len(trace') : trace'[k] # "transfer"
           /\ shared' = shared
           /\ state_data' = state_data]_vars

\* A caller that is no member asked for 0 and was refused.
C5_Witness ==
    /\ ix.op = "withdraw"
    /\ ix.acc.is_signer
    /\ Initialized
    /\ ix.acc.key = CAROL
    /\ AmountOf(ix) = BigZero
    /\ result = Err("InvalidAccountData")

\* C6: a successful withdraw of a by the caller matching member m adds exactly
\* a to that member's counter and leaves the other member's counter as it was,
\* also when the two members are the same key; nothing else changes a counter
\* of an initialized record.
C6_CounterFrame ==
    [][Initialized =>
           IF ix'.op = "withdraw" /\ result' = Ok
           THEN /\ IsMember(Record, ix'.acc.key, 1) =>
                       /\ RecordAfter.member_1_withdraw =
                              BigAdd(Record.member_1_withdraw, AmountOf(ix'))
                       /\ RecordAfter.member_2_withdraw = Record.member_2_withdraw
                /\ IsMember(Record, ix'.acc.key, 2) =>
                       /\ RecordAfter.member_2_withdraw =
                              BigAdd(Record.member_2_withdraw, AmountOf(ix'))
                       /\ RecordAfter.member_1_withdraw = Record.member_1_withdraw
           ELSE /\ RecordAfter.member_1_withdraw = Record.member_1_withdraw
                /\ RecordAfter.member_2_withdraw = Record.member_2_withdraw]_vars

\* C7: a successful withdraw leaves balance + withdrawn_1 + withdrawn_2 as it
\* was; in every reachable state that sum is the first balance plus all
\* deposits; and a member whose entitlement is withdrawn in full is refused any
\* positive amount with WithdrawLimitExceeded.
C7_InflowPreserved ==
    /\ [](TotalEverDeposited(shared.amount, Record) = deposited)
    /\ [][(ix'.op = "withdraw" /\ result' = Ok) =>
              TotalEverDeposited(shared'.amount, RecordAfter) =
                  TotalEverDeposited(shared.amount, Record)]_vars
    /\ [][\A m \in 1..2 :
              (/\ WellFormedWithdraw(ix')
               /\ Initialized
               /\ IsMember(Record, ix'.acc.key, m)
               /\ EntitlementLeft(shared.amount, Record, m) = BigZero
               /\ AmountOf(ix') # BigZero) =>
                  result' = Custom(WithdrawLimitExceeded)]_vars

\* C8: each counter is the sum of the amounts of the member's withdrawals that
\* succeeded, starting from 0.
C8_CounterIsSumOfApproved ==
    /\ Record.member_1_withdraw = approved_1
    /\ Record.member_2_withdraw = approved_2

\* C9: once the record is initialized, is_initialized stays true and the two
\* member keys and the two shares keep their values, whatever is run.
C9_ArrangementImmutable ==
    [][Initialized =>
           /\ RecordAfter.is_initialized
           /\ RecordAfter.member_1_pubkey = Record.member_1_pubkey
           /\ RecordAfter.member_2_pubkey = Record.member_2_pubkey
           /\ RecordAfter.member_1_shares = Record.member_1_shares
           /\ RecordAfter.member_2_shares = Record.member_2_shares]_vars

\* A withdraw has rewritten the record of an arrangement with unequal shares.
C9_Witness ==
    /\ ix.op = "withdraw"
    /\ result = Ok
    /\ Record.member_1_withdraw # BigZero
    /\ Record.member_1_shares = 6000
    /\ Record.member_2_shares = 4000

IsPrefix(a, b) == Len(a) <= Len(b) /\ a = SubSeq(b, 1, Len(a))

LedgerErrors ==
    {Err("LedgerOwnerMismatch"), Err("LedgerInsufficientFunds"), Err("LedgerRejected")}

\* C10: the withdraw handler checks the limit, then asks the transfer, then
\* updates the counters, then writes the record, and stops at the first step
\* that fails; a counter changes only in a withdraw whose transfer took the
\* amount from the shared balance; when the ledger refuses the transfer, the
\* record is unchanged.
C10_WithdrawOrder ==
    [][ix'.op = "withdraw" =>
           /\ IsPrefix(trace', <<"check", "transfer", "update", "pack">>)
           /\ state_data' # state_data =>
                  /\ result' = Ok
                  /\ trace' = <<"check", "transfer", "update", "pack">>
                  /\ BigAdd(shared'.amount, AmountOf(ix')) = shared.amount
           /\ result' \in LedgerErrors =>
                  /\ trace' = <<"check", "transfer">>
                  /\ state_data' = state_data
                  /\ shared' = shared]_vars

\* The ledger refused a transfer for want of funds after the check had passed.
C10_Witness ==
    /\ ix.op = "withdraw"
    /\ result = Err("LedgerInsufficientFunds")
    /\ trace = <<"check", "transfer">>

C12_OwnerStaysDerived ==
    [][/\ (ix'.op = "init" /\ result' = Ok) => shared'.owner = DerivedAuthority
       /\ shared.owner = DerivedAuthority =>
              /\ shared'.owner = DerivedAuthority
              /\ ix'.op = "withdraw" => result' # Err("LedgerOwnerMismatch")]_vars

\* A withdraw was paid out of the shared account the derived authority owns.
C12_Witness ==
    /\ ix.op = "withdraw"
    /\ result = Ok
    /\ trace = <<"check", "transfer", "update", "pack">>
    /\ shared.owner = DerivedAuthority
    /\ AmountOf(ix) # BigZero

\* C13: a withdraw on a record that is not initialized fails whoever calls and
\* whatever the amount (with UninitializedAccount once the caller has signed
\* and the state account is given), asks no transfer and changes neither the
\* record nor the shared account; so, as long as the record is uninitialized,
\* nothing has been withdrawn and the shared balance holds all that was
\* deposited.
C13_NoWithdrawBeforeInitialize ==
    /\ [][(ix'.op = "withdraw" /\ ~Initialized) =>
              /\ result' # Ok
              /\ (ix'.acc.is_signer /\ ix'.acc.n >= 2) =>
                     result' = Err("UninitializedAccount")
              /\ \A k \in 1..Len(trace') : trace'[k] # "transfer"
              /\ state_data' = state_data
              /\ shared' = shared]_vars
    /\ [](~Initialized =>
              /\ shared.amount = deposited
              /\ approved_1 = BigZero
              /\ approved_2 = BigZero)

\* A member-to-be asked for the whole balance before the record was
\* initialized and was refused.
C13_Witness ==
    /\ ix.op = "withdraw"
    /\ ~Initialized
    /\ ix.acc.is_signer
    /\ ix.acc.n = 6
    /\ ix.acc.key = ALICE
    /\ AmountOf(ix) = BigOne
    /\ result = Err("UninitializedAccount")

\* C14: instruction data with tag 0 and fewer than 4 bytes after it is refused
\* with InvalidInstruction, an error value and no abort; with 4 bytes or more
\* after the tag it decodes to InitRevenueSharing, the two shares read
\* little-endian from bytes 0-1 and 2-3 of the payload.
C14_InitDecodeBoundsChecked ==
    [][(/\ ix'.op \in {"init", "malformed"}
        /\ Len(ix'.data) >= 1
        /\ ix'.data[1] = 0) =>
           IF Len(ix'.data) < 5
           THEN result' = Custom(InvalidInstruction)
           ELSE Instruction_unpack(ix'.data) =
                    [err |-> Ok,
                     val |-> [tag |-> "InitRevenueSharing",
                              member_1_shares |-> ix'.data[2] + 256 * ix'.data[3],
                              member_2_shares |-> ix'.data[4] + 256 * ix'.data[5],
                              amount |-> BigZero]]]_vars

\* The number whose little-endian bytes are b, by Horner's rule.
RECURSIVE LittleEndianValue(_)
LittleEndianValue(b) ==
    IF b = << >> THEN BigZero
    ELSE BigAdd(BigOf(Head(b)), BigMulSmall(LittleEndianValue(Tail(b)), 256))

\* C15: empty instruction data, data whose tag is neither 0 nor 1, and data with
\* tag 1 and fewer than 8 bytes after it are refused with InvalidInstruction,
\* no handler runs and nothing changes; data with tag 1 and 8 bytes after it
\* decodes to Withdraw of the little-endian value of those bytes.
C15_DecodeRefusals ==
    [][ix'.op \in {"withdraw", "malformed"} =>
           /\ (\/ ix'.data = << >>
               \/ ix'.data[1] \notin {0, 1}
               \/ (ix'.data[1] = 1 /\ Len(ix'.data) < 9)) =>
                  /\ result' = Custom(InvalidInstruction)
                  /\ trace' = << >>
                  /\ state_data' = state_data
                  /\ shared' = shared
           /\ (Len(ix'.data) = 9 /\ ix'.data[1] = 1) =>
                  Instruction_unpack(ix'.data) =
                      [err |-> Ok,
                       val |-> [tag |-> "Withdraw", member_1_shares |-> 0,
                                member_2_shares |-> 0,
                                amount |-> LittleEndianValue(Tail(ix'.data))]]]_vars

\* Data with tag 1 and 7 bytes after it was refused.
C15_Witness ==
    /\ ix.op = "malformed"
    /\ Len(ix.data) = 8
    /\ ix.data[1] = 1
    /\ result = Custom(InvalidInstruction)

(***************************************************************************)
(* The codec on its own: one buffer of LEN bytes (state_data) and one      *)
(* record in memory (state_acct_data).  A handler decodes the buffer into  *)
(* the record (processor.rs 82, 154), fills in the record (97-103,         *)
(* 223-228) and encodes the record into the buffer (106, 229).             *)
(***************************************************************************)
\* Buffers: each flag byte with each of four fillings of the 84 bytes after it.
CodecFlags == {0, 1, 2, 255}
CodecFillings ==
    {[i \in 1..(LEN - 1) |-> 0],
     [i \in 1..(LEN - 1) |-> 255],
     [i \in 1..(LEN - 1) |-> i],
     [i \in 1..(LEN - 1) |-> (7 * i + 3) % 256]}
CodecBuffers == {<<f>> \o b : f \in CodecFlags, b \in CodecFillings}

\* Records: fields at the ends of their ranges and in between.
CodecKeys == {ALICE, [i \in 1..PUBKEY_BYTES |-> 255], [i \in 1..PUBKEY_BYTES |-> i]}
CodecCounters == {BigZero, BigOne, BigPow2(14), BigPow2(63), U64_MAX}
CodecRecords ==
    {[is_initialized |-> b, member_1_pubkey |-> k, member_2_pubkey |-> ALICE,
      member_1_shares |-> 6000, member_2_shares |-> 65535,
      member_1_withdraw |-> w, member_2_withdraw |-> BigOf(258)] :
        b \in BOOLEAN, k \in CodecKeys, w \in CodecCounters}
    \cup {[is_initialized |-> TRUE, member_1_pubkey |-> BOB, member_2_pubkey |-> k,
           member_1_shares |-> s, member_2_shares |-> 256,
           member_1_withdraw |-> BigOf(515), member_2_withdraw |-> w] :
             k \in CodecKeys, s \in {0, 255, U16_MAX}, w \in CodecCounters}

CodecIx(op) == [op |-> op, acc |-> NoAcc, data |-> << >>]

CodecInit ==
    /\ state_data \in CodecBuffers
    /\ state_acct_data \in {r \in CodecRecords : ~r.is_initialized /\ r.member_1_pubkey = ALICE}
    /\ ix = NoIx
    /\ result = Ok
    /\ trace = << >>
    /\ shared = [owner |-> CAROL, amount |-> BigZero]
    /\ deposited = BigZero
    /\ approved_1 = BigZero
    /\ approved_2 = BigZero
    /\ steps = 0
    /\ deposits = 0
    /\ other_state_data = [i \in 1..LEN |-> 0]
    /\ other_shared = [owner |-> CAROL, amount |-> BigZero]

CodecFrame ==
    UNCHANGED <<trace, shared, deposited, approved_1, approved_2, steps, deposits,
                other_state_data, other_shared>>

\* RevenueSharing::unpack_unchecked(&state_acct.data.borrow())
CodecUnpack ==
    \E u \in {unpack_unchecked(state_data)} :
        /\ ix' = CodecIx("unpack")
        /\ result' = u.err
        /\ state_acct_data' = IF u.err = Ok THEN u.val ELSE state_acct_data
        /\ state_data' = state_data
        /\ CodecFrame

\* The handler fills in the fields of the record.
CodecPopulate ==
    \E r \in CodecRecords :
        /\ ix' = CodecIx("populate")
        /\ result' = Ok
        /\ state_acct_data' = r
        /\ state_data' = state_data
        /\ CodecFrame

\* RevenueSharing::pack(state_acct_data, &mut state_acct.data.borrow_mut())
CodecPack ==
    \E p \in {pack(state_acct_data, state_data)} :
        /\ ix' = CodecIx("pack")
        /\ result' = p.err
        /\ state_data' = IF p.err = Ok THEN p.val ELSE state_data
        /\ state_acct_data' = state_acct_data
        /\ CodecFrame

CodecNext == CodecUnpack \/ CodecPopulate \/ CodecPack

CodecSpec == CodecInit /\ [][CodecNext]_vars

\* C16: decoding what a record was encoded to gives the record back; encoding
\* what an 85-byte buffer with flag 0 or 1 was decoded to gives the buffer back;
\* decoding a buffer with any other flag fails with InvalidAccountData.
C16_CodecRoundTrip ==
    [][/\ ix'.op = "pack" =>
              /\ result' = Ok
              /\ Len(state_data') = LEN
              /\ unpack_from_slice(state_data') = [err |-> Ok, val |-> state_acct_data]
       /\ ix'.op = "unpack" =>
              IF state_data[1] \in {0, 1}
              THEN /\ result' = Ok
                   /\ pack_into_slice(state_acct_data') = state_data
              ELSE /\ result' = Err("InvalidAccountData")
                   /\ unpack_from_slice(state_data) = [err |-> Err("InvalidAccountData")]]_vars

\* A record with a counter of 2^64 - 1 and a key of 32 bytes of 255 has been
\* encoded.
C16_Witness ==
    /\ ix.op = "pack"
    /\ result = Ok
    /\ state_acct_data.member_1_withdraw = U64_MAX
    /\ state_acct_data.member_1_pubkey[32] = 255
    /\ state_data[70] = 255

\* C17: the limit the withdraw handler compares the amount against is exactly
\* floor((balance + withdrawn_1 + withdrawn_2) * shares_m / 10000) - withdrawn_m
\* for each member m, whatever the balance, the counters and the shares.
C17_LimitIsExactFloor ==
    Initialized =>
        \A m \in 1..2 :
            WithinEntitlement(shared.amount, Record, m) =>
                max_allowed(shared.amount, Record.member_1_withdraw,
                            Record.member_2_withdraw, Record.member_1_shares,
                            Record.member_2_shares, m = 1)
                    = EntitlementLeft(shared.amount, Record, m)

(***************************************************************************)
(* Two arrangements on the same program.  The first has the state account  *)
(* state_data and the shared account shared; the second has                *)
(* other_state_data and other_shared.  An instruction names the accounts   *)
(* it is to work on: the handlers take whichever state account and shared  *)
(* account the caller lists (processor.rs 67, 73, 151, 165).               *)
(***************************************************************************)
MaxPairSteps == 4

\* Who sets up each arrangement, its members and shares, and the balance of
\* its shared account.
PairSetup ==
    <<[initializer |-> ALICE, member_1 |-> ALICE, member_2 |-> BOB,
       member_1_shares |-> 6000, member_2_shares |-> 4000, balance |-> BigOf(1000)],
      [initializer |-> CAROL, member_1 |-> CAROL, member_2 |-> CAROL,
       member_1_shares |-> 10000, member_2_shares |-> 0, balance |-> BigOf(10)]>>

PairAmounts == {BigOne, BigOf(10), BigOf(400), BigOf(1000)}

StateAcct(k) == IF k = 1 THEN state_data ELSE other_state_data
SharedAcct(k) == IF k = 1 THEN shared ELSE other_shared

PairInit ==
    /\ state_data = [i \in 1..LEN |-> 0]
    /\ other_state_data = [i \in 1..LEN |-> 0]
    /\ shared = [owner |-> PairSetup[1].initializer, amount |-> PairSetup[1].balance]
    /\ other_shared = [owner |-> PairSetup[2].initializer, amount |-> PairSetup[2].balance]
    /\ ix = NoIx
    /\ result = Ok
    /\ trace = << >>
    /\ deposited = BigZero
    /\ approved_1 = BigZero
    /\ approved_2 = BigZero
    /\ steps = 0
    /\ deposits = 0
    /\ state_acct_data = unpack_unchecked(state_data).val

\* The outcomes of an instruction on the accounts it names, under either
\* overflow setting (see OutcomesFrom).
PairOutcomesFrom(checked, acc, data, r, s) ==
    IF checked.result = Panic
    THEN {checked, process(PROGRAM_ID, acc, data, StateAcct(r), SharedAcct(s), FALSE)}
    ELSE {checked}

PairOutcomes(acc, data, r, s) ==
    PairOutcomesFrom(process(PROGRAM_ID, acc, data, StateAcct(r), SharedAcct(s), TRUE), acc, data, r, s)

\* The runtime runs the program on state account r and shared account s.
PairSubmit(op, acc, data, r, s) ==
    \E out \in PairOutcomes(acc, data, r, s) :
    \E ok \in {out.result = Ok} :
    \E changed \in {ok /\ (out.state_data # StateAcct(r) \/ out.shared # SharedAcct(s))} :
        /\ changed => steps < MaxPairSteps
        /\ ix' = [op |-> op, acc |-> acc, data |-> data, state_acct |-> r, shared_acct |-> s]
        /\ result' = out.result
        /\ trace' = out.trace
        /\ state_data' = IF r = 1 THEN commit(ok, out.state_data, state_data) ELSE state_data
        /\ other_state_data' = IF r = 2 THEN commit(ok, out.state_data, other_state_data) ELSE other_state_data
        /\ shared' = IF s = 1 THEN commit(ok, out.shared, shared) ELSE shared
        /\ other_shared' = IF s = 2 THEN commit(ok, out.shared, other_shared) ELSE other_shared
        /\ steps' = IF changed THEN steps + 1 ELSE steps
        /\ UNCHANGED <<deposited, approved_1, approved_2, deposits, state_acct_data>>

\* Each arrangement is initialized by its initializer, on its own accounts or
\* on the shared account of the other.
PairInitialize ==
    /\ ix = NoIx
    /\ \E r \in 1..2, s \in 1..2 :
           PairSubmit("init",
                      Acc(7, PairSetup[r].initializer, TRUE, "token", TRUE, TRUE,
                          PairSetup[r].member_1, PairSetup[r].member_2, TRUE),
                      InitData(PairSetup[r].member_1_shares, PairSetup[r].member_2_shares),
                      r, s)

\* Any of the three keys asks a withdraw, naming any state account and any
\* shared account.
PairWithdraw ==
    /\ ix = NoIx
    /\ \E r \in 1..2, s \in 1..2, k \in {ALICE, BOB, CAROL}, a \in PairAmounts :
           PairSubmit("withdraw", WithdrawAcc(6, k, TRUE, "token", TRUE),
                      WithdrawData(a), r, s)

PairNext == PairInitialize \/ PairWithdraw \/ EndTransaction

PairSpec == PairInit /\ [][PairNext]_vars

\* C18: with two arrangements, a withdraw that presents the record of one
\* moves value only out of the shared account that the initialize of that
\* record handed over: the shared account of the other arrangement is left as
\* it was.
C18_ArrangementsIsolated ==
    [][(ix'.op = "withdraw" /\ result' = Ok) =>
           /\ ix'.state_acct = 1 => other_shared' = other_shared
           /\ ix'.state_acct = 2 => shared' = shared]_vars

\* The record is of two different members whose shares are at most 10000
\* together.
ProperArrangement(r) ==
    /\ r.is_initialized
    /\ r.member_1_pubkey # r.member_2_pubkey
    /\ r.member_1_shares + r.member_2_shares <= SHARES_DENOMINATOR

\* C19: for a record of two different members with shares of at most 10000
\* together, in every reachable state the entitlements left to the two members
\* are together at most the shared balance, and a withdraw that passes the
\* limit check is never refused by the ledger for want of funds.
C19_EntitlementsCoveredByBalance ==
    /\ [](ProperArrangement(Record) =>
              BigLe(BigAdd(EntitlementLeft(shared.amount, Record, 1),
                           EntitlementLeft(shared.amount, Record, 2)),
                    shared.amount))
    /\ [][(ix'.op = "withdraw" /\ ProperArrangement(Record)) =>
              result' # Err("LedgerInsufficientFunds")]_vars

(***************************************************************************)
(* Withdrawals of the members' exact entitlements.  The accounts and the   *)
(* instructions are those of Spec; the balances are chosen above 2^53,     *)
(* where not every integer is an f64, and the amounts asked are 1 and what *)
(* is left of each member's entitlement floor(total * shares / 10000).     *)
(***************************************************************************)
OrderBalances == {BigOf(1000), BigAdd(BigPow2(MANTISSA_DIGITS), BigOf(6))}

OrderInit ==
    /\ state_data = [i \in 1..LEN |-> 0]
    /\ shared \in {[owner |-> CAROL, amount |-> b] : b \in OrderBalances}
    /\ ix = NoIx
    /\ result = Ok
    /\ trace = << >>
    /\ deposited = shared.amount
    /\ approved_1 = BigZero
    /\ approved_2 = BigZero
    /\ steps = 0
    /\ deposits = 0
    /\ state_acct_data = unpack_unchecked(state_data).val
    /\ other_state_data = state_data
    /\ other_shared = [owner |-> CAROL, amount |-> BigZero]

\* The amounts asked of a record: 1 and the entitlement left to each member.
OrderAmounts(balance, r) ==
    {BigOne, EntitlementLeft(balance, r, 1), EntitlementLeft(balance, r, 2)}

OrderWithdraw ==
    /\ ix = NoIx
    /\ \E k \in {ALICE, BOB}, a \in OrderAmounts(shared.amount, RecordOf(state_data)) :
           Submit("withdraw", WithdrawAcc(6, k, TRUE, "token", TRUE), WithdrawData(a))

OrderNext == Initialize \/ OrderWithdraw \/ EndTransaction

OrderSpec == OrderInit /\ [][OrderNext]_vars

\* A signed withdraw of amount by key on the given accounts, and a withdraw
\* that follows an instruction that succeeded.
WithdrawOn(data, token_acct, key, amount) ==
    process(PROGRAM_ID, WithdrawAcc(6, key, TRUE, "token", TRUE),
            WithdrawData(amount), data, token_acct, TRUE)

WithdrawAfter(out, key, amount) ==
    IF out.result # Ok THEN out
    ELSE WithdrawOn(out.state_data, out.shared, key, amount)

\* Member 1 withdraws a1 and then member 2 withdraws a2, and the other way
\* round: both succeed and leave the same record and the same shared account.
EitherOrder(first, second) ==
    /\ first.result = Ok
    /\ second.result = Ok
    /\ first.state_data = second.state_data
    /\ first.shared = second.shared

\* C20: for a record of two different members, a successful withdraw by one
\* member leaves the entitlement left to the other as it was; and two
\* withdrawals, one by each member, each within the member's entitlement and
\* together within the balance, succeed in either order and leave the same
\* record and balance.
C20_WithdrawalsCommute ==
    /\ [][(/\ ix'.op = "withdraw"
           /\ result' = Ok
           /\ Record.member_1_pubkey # Record.member_2_pubkey) =>
              \A m \in 1..2 :
                  ~IsMember(Record, ix'.acc.key, m) =>
                      EntitlementLeft(shared'.amount, RecordAfter, m) =
                          EntitlementLeft(shared.amount, Record, m)]_vars
    /\ []((Initialized /\ Record.member_1_pubkey # Record.member_2_pubkey) =>
              \A a1, a2 \in OrderAmounts(shared.amount, Record) :
                  (/\ BigLe(a1, EntitlementLeft(shared.amount, Record, 1))
                   /\ BigLe(a2, EntitlementLeft(shared.amount, Record, 2))
                   /\ BigLe(BigAdd(a1, a2), shared.amount)) =>
                      EitherOrder(
                          WithdrawAfter(WithdrawOn(state_data, shared, Record.member_1_pubkey, a1),
                                        Record.member_2_pubkey, a2),
                          WithdrawAfter(WithdrawOn(state_data, shared, Record.member_2_pubkey, a2),
                                        Record.member_1_pubkey, a1)))

====
